---- MODULE Spec2Model ----
(***************************************************************************)
(* cfn-hint: directive-driven line rewriting (src/cfn-hint.py).            *)
(*                                                                         *)
(* A Python str is a sequence of one-character strings.  The regular       *)
(* expression engine (module re) is modelled on the fragment the documents *)
(* of this model use: literal characters, the escapes \n and \\, group     *)
(* parentheses (only their balance is decided), numbered group references  *)
(* and the counted repetition {N}.                                         *)
(***************************************************************************)
EXTENDS Integers, Sequences, FiniteSets, TLC

LF == "\n"
CR == "\r"
FF == "\f"
BS == "\\"

\* The line boundaries str.splitlines recognises (the other boundaries of
\* Unicode, such as \v and \x85, behave as \f does).
LineBreaks == {LF, CR, FF}

\* The characters str.strip() removes.
Whitespace == {" ", LF, CR, FF}

Digits == <<"0", "1", "2", "3", "4", "5", "6", "7", "8", "9">>

IsDigit(c) == \E i \in 1..10 : Digits[i] = c

DigitVal(c) == (CHOOSE i \in 1..10 : Digits[i] = c) - 1

\* "# cfn-hint: replace:", the literal process_content looks for.
Marker == <<"#", " ", "c", "f", "n", "-", "h", "i", "n", "t", ":", " ",
            "r", "e", "p", "l", "a", "c", "e", ":">>

\* " with: ", the literal parse_hint splits on.
WithDelim == <<" ", "w", "i", "t", "h", ":", " ">>

(***************************************************************************)
(* str operations                                                          *)
(***************************************************************************)

\* s[i:i+len(sub)] == sub
MatchAt(s, sub, i) ==
    /\ i >= 1
    /\ i + Len(sub) - 1 <= Len(s)
    /\ \A j \in 1..Len(sub) : s[i + j - 1] = sub[j]

\* str.find: the first index at which sub occurs in s, 0 when it does not.
find(s, sub) ==
    IF \E i \in 1..Len(s) : MatchAt(s, sub, i)
    THEN CHOOSE i \in 1..Len(s) :
             /\ MatchAt(s, sub, i)
             /\ \A k \in 1..(i - 1) : ~MatchAt(s, sub, k)
    ELSE 0

\* sub in s
Contains(s, sub) == find(s, sub) # 0

\* s[i:] (1-based, inclusive)
Tail_from(s, i) == SubSeq(s, i, Len(s))

\* str.strip()
strip(s) ==
    LET keep == {i \in 1..Len(s) : s[i] \notin Whitespace}
    IN  IF keep = {} THEN <<>>
        ELSE SubSeq(s, CHOOSE i \in keep : \A j \in keep : i <= j,
                       CHOOSE i \in keep : \A j \in keep : i >= j)

\* hint_line.split(':', 2)[-1]: the text after the second colon, after the only
\* colon when there is one, the whole line when there is none.
split_colon_last(s) ==
    LET c1 == find(s, <<":">>)
        r1 == IF c1 = 0 THEN s ELSE Tail_from(s, c1 + 1)
        c2 == IF c1 = 0 THEN 0 ELSE find(r1, <<":">>)
    IN  IF c2 = 0 THEN r1 ELSE Tail_from(r1, c2 + 1)

\* parts.split(' with: ', 1): one piece when the delimiter is absent, else the
\* text before and after its first occurrence.
split_with(s) ==
    LET i == find(s, WithDelim)
    IN  IF i = 0 THEN <<s>>
        ELSE <<SubSeq(s, 1, i - 1), Tail_from(s, i + Len(WithDelim))>>

\* The index of the last character of every line of s: a line boundary that is
\* not the \r of a \r\n pair, and the end of an unterminated last line.
LineEnds(s) ==
    {i \in 1..Len(s) :
        \/ /\ s[i] \in LineBreaks
           /\ ~(s[i] = CR /\ i < Len(s) /\ s[i + 1] = LF)
        \/ i = Len(s)}

RECURSIVE lines_from(_, _, _)
lines_from(s, start, ends) ==
    IF ends = {} THEN <<>>
    ELSE LET e == CHOOSE i \in ends : \A j \in ends : i <= j
         IN  <<SubSeq(s, start, e)>> \o lines_from(s, e + 1, ends \ {e})

\* Mutant: the lines without their terminators (keepends left out).
splitlines_no_keepends(s) ==
    LET ls == lines_from(s, 1, LineEnds(s))
    IN  [k \in 1..Len(ls) |->
            SelectSeq(ls[k], LAMBDA c : c \notin LineBreaks)]

\* content.splitlines(keepends=True)
splitlines(s) == lines_from(s, 1, LineEnds(s))

\* "".join(modified_lines)
RECURSIVE join(_)
join(ls) == IF ls = <<>> THEN <<>> ELSE Head(ls) \o join(Tail(ls))

(***************************************************************************)
(* parse_hint                                                              *)
(***************************************************************************)

\* parse_hint(hint_line): ok is FALSE when the unpacking of the two pieces
\* raises ValueError, which parse_hint re-raises as ValueError.
parse_hint(hint_line) ==
    LET parts == strip(split_colon_last(hint_line))
        pieces == split_with(parts)
    IN  IF Len(pieces) = 2
        THEN [ok |-> TRUE, pattern |-> pieces[1], replacement |-> pieces[2]]
        ELSE [ok |-> FALSE, pattern |-> <<>>, replacement |-> <<>>]

(***************************************************************************)
(* re.compile and re.sub                                                   *)
(***************************************************************************)

Letters == {"a", "b", "c", "d", "e", "f", "g", "h", "i", "j", "k", "l", "m",
            "n", "o", "p", "q", "r", "s", "t", "u", "v", "w", "x", "y", "z"}

\* sre_constants.MAXREPEAT, 4294967295, digit by digit.
MaxRepeatDigits == <<"4", "2", "9", "4", "9", "6", "7", "2", "9", "5">>

RECURSIVE strip_zeros(_)
strip_zeros(ds) ==
    IF Len(ds) > 1 /\ Head(ds) = "0" THEN strip_zeros(Tail(ds)) ELSE ds

RECURSIVE digits_ge(_, _)
digits_ge(a, b) ==
    IF a = <<>> THEN TRUE
    ELSE IF DigitVal(Head(a)) # DigitVal(Head(b))
         THEN DigitVal(Head(a)) > DigitVal(Head(b))
         ELSE digits_ge(Tail(a), Tail(b))

\* int(lo) >= MAXREPEAT
AtLeastMaxRepeat(ds) ==
    LET d == strip_zeros(ds)
    IN  \/ Len(d) > Len(MaxRepeatDigits)
        \/ Len(d) = Len(MaxRepeatDigits) /\ digits_ge(d, MaxRepeatDigits)

\* int(lo) of a repetition count below MAXREPEAT, saturating at 1000; a line
\* shorter than that is matched alike by every larger count.
RECURSIVE repeat_count(_, _)
repeat_count(ds, acc) ==
    IF ds = <<>> THEN acc
    ELSE repeat_count(Tail(ds),
                      IF acc * 10 + DigitVal(Head(ds)) > 1000 THEN 1000
                      ELSE acc * 10 + DigitVal(Head(ds)))

copies(c, n) == [k \in 1..n |-> c]

\* The end of the run of digits of p that starts at i.
RECURSIVE digits_end(_, _)
digits_end(p, i) ==
    IF i <= Len(p) /\ IsDigit(p[i]) THEN digits_end(p, i + 1) ELSE i

\* sre_parse of pattern p from index i: the literal text the pattern matches,
\* or the exception it raises ("error" is re.error).  depth counts the open
\* groups, rep says whether the last item can be repeated.
RECURSIVE parse_pattern(_, _, _, _, _)
parse_pattern(p, i, depth, rep, lit) ==
    IF i > Len(p)
    THEN IF depth > 0 THEN [status |-> "error", lit |-> <<>>]
         ELSE [status |-> "ok", lit |-> lit]
    ELSE IF p[i] = BS
    THEN IF i = Len(p) THEN [status |-> "error", lit |-> <<>>]
         ELSE IF p[i + 1] = "n"
         THEN parse_pattern(p, i + 2, depth, TRUE, Append(lit, LF))
         ELSE IF p[i + 1] = "r"
         THEN parse_pattern(p, i + 2, depth, TRUE, Append(lit, CR))
         ELSE IF p[i + 1] = "f"
         THEN parse_pattern(p, i + 2, depth, TRUE, Append(lit, FF))
         ELSE IF p[i + 1] \in Letters \/ IsDigit(p[i + 1])
         THEN [status |-> "error", lit |-> <<>>]
         ELSE parse_pattern(p, i + 2, depth, TRUE, Append(lit, p[i + 1]))
    ELSE IF p[i] = "("
    THEN parse_pattern(p, i + 1, depth + 1, FALSE, lit)
    ELSE IF p[i] = ")"
    THEN IF depth = 0 THEN [status |-> "error", lit |-> <<>>]
         ELSE parse_pattern(p, i + 1, depth - 1, FALSE, lit)
    ELSE IF p[i] = "{"
    THEN LET e == digits_end(p, i + 1)
             lo == SubSeq(p, i + 1, e - 1)
         IN  IF lo = <<>> \/ e > Len(p) \/ p[e] # "}"
             THEN parse_pattern(p, i + 1, depth, TRUE, Append(lit, "{"))
             ELSE IF AtLeastMaxRepeat(lo)
             THEN [status |-> "OverflowError", lit |-> <<>>]
             ELSE IF ~rep THEN [status |-> "error", lit |-> <<>>]
             ELSE parse_pattern(p, e + 1, depth, FALSE,
                      SubSeq(lit, 1, Len(lit) - 1)
                          \o copies(lit[Len(lit)], repeat_count(lo, 0)))
    ELSE parse_pattern(p, i + 1, depth, TRUE, Append(lit, p[i]))

\* re.compile(pattern)
re_compile(pattern) == parse_pattern(pattern, 1, 0, FALSE, <<>>)

\* parse_template: the text a replacement template stands for, or re.error.
\* A pattern of the fragment completes no group that could be referred to.
RECURSIVE parse_template(_, _, _)
parse_template(r, i, lit) ==
    IF i > Len(r) THEN [status |-> "ok", lit |-> lit]
    ELSE IF r[i] # BS THEN parse_template(r, i + 1, Append(lit, r[i]))
    ELSE IF i = Len(r) THEN [status |-> "error", lit |-> <<>>]
    ELSE IF r[i + 1] = "n" THEN parse_template(r, i + 2, Append(lit, LF))
    ELSE IF r[i + 1] = "r" THEN parse_template(r, i + 2, Append(lit, CR))
    ELSE IF r[i + 1] = "f" THEN parse_template(r, i + 2, Append(lit, FF))
    ELSE IF r[i + 1] = BS THEN parse_template(r, i + 2, Append(lit, BS))
    ELSE IF r[i + 1] \in Letters \/ IsDigit(r[i + 1])
    THEN [status |-> "error", lit |-> <<>>]
    ELSE parse_template(r, i + 2, lit \o <<BS, r[i + 1]>>)

\* The substitution of every non-overlapping match of the literal text pat in
\* s, scanning from index i; an empty match is followed by one character of s.
RECURSIVE sub_from(_, _, _, _)
sub_from(pat, repl, s, i) ==
    IF i > Len(s) THEN (IF pat = <<>> THEN repl ELSE <<>>)
    ELSE IF MatchAt(s, pat, i)
    THEN IF pat = <<>>
         THEN repl \o <<s[i]>> \o sub_from(pat, repl, s, i + 1)
         ELSE repl \o sub_from(pat, repl, s, i + Len(pat))
    ELSE <<s[i]>> \o sub_from(pat, repl, s, i + 1)

(***************************************************************************)
(* replace_line                                                            *)
(***************************************************************************)

\* Mutant: the replacement is also put before a line the pattern does not
\* match.
replace_line_prepends(line, pattern, replacement) ==
    LET c == re_compile(pattern)
        t == parse_template(replacement, 1, <<>>)
    IN  IF c.status = "OverflowError"
        THEN [status |-> "OverflowError", value |-> <<>>]
        ELSE IF c.status = "error" \/ t.status = "error"
        THEN [status |-> "ValueError", value |-> <<>>]
        ELSE [status |-> "ok",
              value |-> IF Contains(line, c.lit)
                        THEN sub_from(c.lit, t.lit, line, 1)
                        ELSE t.lit \o line]

\* replace_line(line, pattern, replacement): re.compile(pattern), then
\* re.sub(pattern, replacement, line).  re.error becomes ValueError; any other
\* exception leaves replace_line as it is.
replace_line(line, pattern, replacement) ==
    LET c == re_compile(pattern)
        t == parse_template(replacement, 1, <<>>)
    IN  IF c.status = "OverflowError"
        THEN [status |-> "OverflowError", value |-> <<>>]
        ELSE IF c.status = "error" \/ t.status = "error"
        THEN [status |-> "ValueError", value |-> <<>>]
        ELSE [status |-> "ok", value |-> sub_from(c.lit, t.lit, line, 1)]

(***************************************************************************)
(* process_content: the body of its loop                                   *)
(***************************************************************************)

\* Mutant: line.startswith("# cfn-hint: replace:")
is_hint_line_prefix(line) == MatchAt(line, Marker, 1)

\* "# cfn-hint: replace:" in line
is_hint_line(line) == Contains(line, Marker)

\* A line that is no hint line is appended as it is.
plain_line(pos, out, line) ==
    [kind |-> "plain", pos |-> pos + 1, out |-> Append(out, line)]

\* Mutant: the line after a hint that does not parse is drawn and dropped.
hint_parse_error_consumes(pos, out, line) ==
    [kind |-> "parse_error", pos |-> pos + 2, out |-> Append(out, line)]

\* parse_hint raised ValueError: the hint line is kept, nothing is drawn from
\* the iterator.
hint_parse_error(pos, out, line) ==
    [kind |-> "parse_error", pos |-> pos + 1, out |-> Append(out, line)]

\* Mutant: StopIteration is not caught.
hint_at_eof_uncaught(pos, out, line) ==
    [kind |-> "raised", pos |-> pos + 1, out |-> Append(out, line)]

\* next(lines_iter) raised StopIteration: the hint line is kept.
hint_at_eof(pos, out, line) ==
    [kind |-> "eof", pos |-> pos + 1, out |-> Append(out, line)]

\* Mutant: the next line is not appended when the replacement fails.
hint_regex_error_drops(pos, out, line, next_line) ==
    [kind |-> "regex_error", pos |-> pos + 2, out |-> Append(out, line)]

\* Mutant: the next line is appended and left in the iterator.
hint_regex_error_redraws(pos, out, line, next_line) ==
    [kind |-> "regex_error", pos |-> pos + 1,
     out |-> Append(Append(out, line), next_line)]

\* replace_line raised ValueError: the hint line and the unmodified next line.
hint_regex_error(pos, out, line, next_line) ==
    [kind |-> "regex_error", pos |-> pos + 2,
     out |-> Append(Append(out, line), next_line)]

\* Mutant: the hint line is left out of the output once it is applied.
hint_replaced_strips(pos, out, line, modified_line) ==
    [kind |-> "replaced", pos |-> pos + 2, out |-> Append(out, modified_line)]

\* The hint line and the replaced line.
hint_replaced(pos, out, line, modified_line) ==
    [kind |-> "replaced", pos |-> pos + 2,
     out |-> Append(Append(out, line), modified_line)]

\* replace_line raised an exception that is no ValueError: nothing catches it
\* in process_content.
hint_raised(pos, out, line) ==
    [kind |-> "raised", pos |-> pos + 2, out |-> Append(out, line)]

\* One iteration of `for line in lines_iter`, with pos lines already drawn from
\* the iterator over ls and out the modified_lines so far.
loop_body(ls, pos, out) ==
    LET line == ls[pos + 1]
    IN  IF ~is_hint_line(line) THEN plain_line(pos, out, line)
        ELSE LET h == parse_hint(line)
             IN  IF ~h.ok THEN hint_parse_error(pos, out, line)
                 ELSE IF pos + 1 >= Len(ls) THEN hint_at_eof(pos, out, line)
                 ELSE LET next_line == ls[pos + 2]
                          r == replace_line(next_line, h.pattern, h.replacement)
                      IN  IF r.status = "OverflowError"
                          THEN hint_raised(pos, out, line)
                          ELSE IF r.status = "ValueError"
                          THEN hint_regex_error(pos, out, line, next_line)
                          ELSE hint_replaced(pos, out, line, r.value)

\* The iterations from pos on, then the return.  (A singleton set binds the
\* value of an iteration once, for the recursion to use.)
RECURSIVE run_loop(_, _, _)
run_loop(ls, pos, out) ==
    IF pos >= Len(ls) THEN [raised |-> FALSE, value |-> join(out)]
    ELSE CHOOSE r \in {IF b.kind = "raised"
                       THEN [raised |-> TRUE, value |-> <<>>]
                       ELSE run_loop(ls, b.pos, b.out) :
                       b \in {loop_body(ls, pos, out)}} : TRUE

\* process_content(content), as main calls it: the string it returns, or
\* raised when an exception leaves it.
process_content(c) ==
    CHOOSE r \in {run_loop(ls, 0, <<>>) : ls \in {splitlines(c)}} : TRUE

(***************************************************************************)
(* The documents of the model                                              *)
(***************************************************************************)

\* "# cfn-hint: replace: <p> with: <r>"
Hint(p, r) == Marker \o <<" ">> \o p \o WithDelim \o r

Pieces ==
    << <<"a", " ", "a", LF>>,                       \* a plain line
       <<"a", CR, LF>>,
       <<"x">>,                                     \* no terminator
       <<"k", ":">>,                                \* a colon, no terminator
       Hint(<<"a">>, <<"b">>) \o <<LF>>,
       Hint(<<"a">>, <<"a", "a">>) \o <<CR>>,
       Hint(<<"a">>, <<"a">>) \o <<FF>>,
       Marker \o <<" ", "a", LF>>,                  \* no " with: "
       Hint(<<"(">>, <<"b">>) \o <<LF>>,            \* does not compile
       Hint(<<BS, "n">>, <<"b">>) \o <<LF>>,        \* matches the terminator
       Hint(<<"a">>, <<BS, "n">>) \o <<LF>>,        \* inserts a line boundary
       Tail(Tail(Hint(<<"a">>, <<"b">>))) \o <<CR>>, \* no "# "
       Hint(<<"a">>, <<BS, "1">>) \o <<LF>>,        \* no such group
       Hint(<<"a", "{", "4", "2", "9", "4", "9", "6", "7", "2", "9", "5", "}">>,
            <<"b">>) \o <<LF>> >>

\* The greatest number of pieces a document is made of.
MaxPieces == 3

RECURSIVE concat(_)
concat(ps) == IF ps = <<>> THEN <<>> ELSE Pieces[Head(ps)] \o concat(Tail(ps))

Docs ==
    {concat(ps) : ps \in UNION {[1..n -> 1..Len(Pieces)] : n \in 0..MaxPieces}}

(***************************************************************************)
(* main, file mode                                                         *)
(***************************************************************************)

EXIT_SUCCESS == 0
EXIT_NO_FILES_MATCHED == 2
EXIT_FILE_READ_ERROR == 3
EXIT_FILE_WRITE_ERROR == 4
EXIT_INTERNAL_ERROR == 8

\* Mutant: the last failure code, not the greatest.
worst_last(overall, code) == code

\* max(overall_exit_code, code)
worst(overall, code) == IF code > overall THEN code ELSE overall

\* The contents of the files main reads: one without a hint, one a hint
\* changes, one whose hint makes process_content raise.
FileDocs == {concat(<<1>>), concat(<<5, 1>>), concat(<<14, 1>>)}

\* The greatest number of files the patterns resolve to.
MaxFiles == 3

(***************************************************************************)
(* State                                                                   *)
(***************************************************************************)

VARIABLES
    content,         \* the argument of process_content
    lines,           \* content.splitlines(keepends=True)
    lines_iter,      \* the number of lines drawn from lines_iter
    modified_lines,
    pc,              \* "idle", "loop", "returned", "raised" ("off" under SpecMain)
    result,          \* the string process_content returned
    steps,           \* the iterations run: the line the for statement drew
                     \* and the branch of the body it took
    call,            \* 1: on a document; 2: on what the first call returned
    first,           \* the document of the first call
    files,           \* the contents of sorted(files_to_process)
    mode,            \* "diff" (args.diff), "output_dir" (args.output_dir), "stdout"
    file_idx,        \* the number of files the loop of main has taken
    overall_exit_code,
    mpc,             \* "start", "files", "exit_early", "exit" ("off" under Spec)
    returned,        \* what main returned
    outcomes         \* per file taken, the failure code of its iteration

pvars == <<content, lines, lines_iter, modified_lines, pc, result, steps, call,
           first>>

mvars == <<files, mode, file_idx, overall_exit_code, mpc, returned, outcomes>>

vars == <<pvars, mvars>>

(***************************************************************************)
(* process_content, one iteration at a time                                *)
(***************************************************************************)

Init ==
    /\ content \in Docs
    /\ lines = <<>>
    /\ lines_iter = 0
    /\ modified_lines = <<>>
    /\ pc = "idle"
    /\ result = <<>>
    /\ steps = <<>>
    /\ call = 1
    /\ first = content
    /\ files = <<>>
    /\ mode = "stdout"
    /\ file_idx = 0
    /\ overall_exit_code = EXIT_SUCCESS
    /\ mpc = "off"
    /\ returned = EXIT_SUCCESS
    /\ outcomes = <<>>

\* modified_lines = []; lines_iter = iter(content.splitlines(keepends=True))
Call ==
    /\ pc = "idle"
    /\ lines' = splitlines(content)
    /\ lines_iter' = 0
    /\ modified_lines' = <<>>
    /\ steps' = <<>>
    /\ pc' = "loop"
    /\ UNCHANGED <<content, result, call, first, mvars>>

\* One iteration of the loop that takes the branch `kind`.
Iterate(kind) ==
    /\ lines_iter < Len(lines)
    /\ \E b \in {loop_body(lines, lines_iter, modified_lines)} :
           /\ b.kind = kind
           /\ lines_iter' = b.pos
           /\ modified_lines' = b.out
           /\ steps' = Append(steps, [at |-> lines_iter + 1, kind |-> kind])
           /\ pc' = IF kind = "raised" THEN "raised" ELSE "loop"
    /\ UNCHANGED <<content, lines, result, call, first, mvars>>

PlainLine == pc = "loop" /\ Iterate("plain")

HintParseError == pc = "loop" /\ Iterate("parse_error")

HintAtEOF == pc = "loop" /\ Iterate("eof")

HintRegexError == pc = "loop" /\ Iterate("regex_error")

HintReplaced == pc = "loop" /\ Iterate("replaced")

HintRaised == pc = "loop" /\ Iterate("raised")

\* return "".join(modified_lines)
Return ==
    /\ pc = "loop"
    /\ lines_iter >= Len(lines)
    /\ result' = join(modified_lines)
    /\ pc' = "returned"
    /\ UNCHANGED <<content, lines, lines_iter, modified_lines, steps, call,
                   first, mvars>>

\* process_content is called on what it returned.
CallAgain ==
    /\ pc = "returned"
    /\ call = 1
    /\ content' = result
    /\ call' = 2
    /\ pc' = "idle"
    /\ UNCHANGED <<lines, lines_iter, modified_lines, result, steps, first,
                   mvars>>

Next ==
    \/ Call
    \/ PlainLine
    \/ HintParseError
    \/ HintAtEOF
    \/ HintRegexError
    \/ HintReplaced
    \/ HintRaised
    \/ Return
    \/ CallAgain

Spec == Init /\ [][Next]_vars

(***************************************************************************)
(* main, file mode: from the expansion of the patterns to the return       *)
(***************************************************************************)

InitMain ==
    /\ content = <<>>
    /\ lines = <<>>
    /\ lines_iter = 0
    /\ modified_lines = <<>>
    /\ pc = "off"
    /\ result = <<>>
    /\ steps = <<>>
    /\ call = 1
    /\ first = <<>>
    /\ files \in UNION {[1..n -> FileDocs] : n \in 0..MaxFiles}
    /\ mode \in {"diff", "output_dir", "stdout"}
    /\ file_idx = 0
    /\ overall_exit_code = EXIT_SUCCESS
    /\ mpc = "start"
    /\ returned = EXIT_SUCCESS
    /\ outcomes = <<>>

\* if not files_to_process: return EXIT_NO_FILES_MATCHED
NoFilesMatched ==
    /\ mpc = "start"
    /\ files = <<>>
    /\ returned' = EXIT_NO_FILES_MATCHED
    /\ mpc' = "exit_early"
    /\ UNCHANGED <<pvars, files, mode, file_idx, overall_exit_code, outcomes>>

\* args.output_dir.mkdir raised OSError.
MkdirError ==
    /\ mpc = "start"
    /\ files # <<>>
    /\ mode = "output_dir"
    /\ returned' = EXIT_FILE_WRITE_ERROR
    /\ mpc' = "exit_early"
    /\ UNCHANGED <<pvars, files, mode, file_idx, overall_exit_code, outcomes>>

\* The loop over sorted(files_to_process) is entered.
EnterLoop ==
    /\ mpc = "start"
    /\ files # <<>>
    /\ mpc' = "files"
    /\ UNCHANGED <<pvars, files, mode, file_idx, overall_exit_code, returned,
                   outcomes>>

\* One iteration of the loop of main ends with failure code `code`
\* (EXIT_SUCCESS when nothing failed).
FileDone(code) ==
    /\ file_idx' = file_idx + 1
    /\ overall_exit_code' =
           IF code = EXIT_SUCCESS THEN overall_exit_code
           ELSE worst(overall_exit_code, code)
    /\ outcomes' = Append(outcomes, code)
    /\ UNCHANGED <<pvars, files, mode, mpc, returned>>

InLoop == mpc = "files" /\ file_idx < Len(files)

\* process_content returned a content that differs from the original.
Changed ==
    \E r \in {process_content(files[file_idx + 1])} :
        ~r.raised /\ r.value # files[file_idx + 1]

\* file_path.read_text raised.
ReadError == InLoop /\ FileDone(EXIT_FILE_READ_ERROR)

\* process_content raised.
InternalError ==
    /\ InLoop
    /\ process_content(files[file_idx + 1]).raised
    /\ FileDone(EXIT_INTERNAL_ERROR)

\* original_content == modified_content
NoChanges ==
    /\ InLoop
    /\ \E r \in {process_content(files[file_idx + 1])} :
           ~r.raised /\ r.value = files[file_idx + 1]
    /\ FileDone(EXIT_SUCCESS)

\* print_diff
PrintDiff == InLoop /\ Changed /\ mode = "diff" /\ FileDone(EXIT_SUCCESS)

\* output_path.write_text succeeded.
WriteFile == InLoop /\ Changed /\ mode = "output_dir" /\ FileDone(EXIT_SUCCESS)

\* output_path.write_text raised.
WriteError ==
    InLoop /\ Changed /\ mode = "output_dir" /\ FileDone(EXIT_FILE_WRITE_ERROR)

\* print of the modified content
PrintContent == InLoop /\ Changed /\ mode = "stdout" /\ FileDone(EXIT_SUCCESS)

\* return overall_exit_code
ReturnStatus ==
    /\ mpc = "files"
    /\ file_idx >= Len(files)
    /\ returned' = overall_exit_code
    /\ mpc' = "exit"
    /\ UNCHANGED <<pvars, files, mode, file_idx, overall_exit_code, outcomes>>

NextMain ==
    \/ NoFilesMatched
    \/ MkdirError
    \/ EnterLoop
    \/ ReadError
    \/ InternalError
    \/ NoChanges
    \/ PrintDiff
    \/ WriteFile
    \/ WriteError
    \/ PrintContent
    \/ ReturnStatus

SpecMain == InitMain /\ [][NextMain]_vars

(***************************************************************************)
(* Properties                                                              *)
(***************************************************************************)

HasMarker(line) == Contains(line, Marker)

\* The iterations run so far.
Ran == 1..Len(steps)

\* The line the for statement drew in iteration k.
Drawn(k) == lines[steps[k].at]

\* s ends with t.
EndsWith(s, t) ==
    Len(t) <= Len(s) /\ Tail_from(s, Len(s) - Len(t) + 1) = t

\* The line boundary a line ends with: \r\n, one boundary character, or none.
Terminator(l) ==
    IF EndsWith(l, <<CR, LF>>) THEN <<CR, LF>>
    ELSE IF l # <<>> /\ l[Len(l)] \in LineBreaks THEN <<l[Len(l)]>>
    ELSE <<>>

\* A line without the boundary it ends with.
LineContent(l) == SubSeq(l, 1, Len(l) - Len(Terminator(l)))

\* The pattern matches somewhere in s (for a pattern that compiles).
re_matches(pattern, s) ==
    LET pat == re_compile(pattern).lit
    IN  pat = <<>> \/ Contains(s, pat)

\* C1: a document without a hint line is returned as it is, terminators
\* included.
C1_NoHintIdentity ==
    (pc = "returned" /\ ~Contains(content, Marker)) => result = content

\* A document of three hint-free lines ending in \n, \r\n and nothing came back.
C1_Witness ==
    /\ pc = "returned"
    /\ ~Contains(content, Marker)
    /\ Len(lines) = 3
    /\ Contains(content, <<CR, LF>>)
    /\ content[Len(content)] \notin LineBreaks
    /\ result = content

TerminatorsKept ==
    \A k \in Ran :
        steps[k].kind = "replaced" =>
            LET i == steps[k].at + 1
            IN  /\ Len(splitlines(modified_lines[i])) = 1
                /\ Terminator(modified_lines[i]) = Terminator(lines[i])

C3_ParseErrorKeepsNextLine ==
    \A k \in Ran :
        LET i == steps[k].at
        IN  (HasMarker(lines[i]) /\ ~parse_hint(lines[i]).ok) =>
                /\ steps[k].kind = "parse_error"
                /\ modified_lines[i] = lines[i]
                /\ IF k = Len(steps)
                   THEN /\ lines_iter = i
                        /\ Len(modified_lines) = i
                        /\ pc # "raised"
                   ELSE /\ steps[k + 1].at = i + 1
                        /\ (steps[k + 1].kind = "plain") <=> ~HasMarker(lines[i + 1])
                        /\ (steps[k + 1].kind = "plain") =>
                               modified_lines[i + 1] = lines[i + 1]

\* A hint that does not parse was followed by a hint that was applied.
C3_Witness ==
    \E k \in Ran :
        /\ steps[k].kind = "parse_error"
        /\ k < Len(steps)
        /\ steps[k + 1].kind = "replaced"
        /\ steps[k + 1].at = steps[k].at + 1

C5_EveryHintLineKept ==
    pc = "returned" =>
        \A i \in 1..Len(lines) :
            HasMarker(lines[i]) =>
                i <= Len(modified_lines) /\ modified_lines[i] = lines[i]

\* C5, amended: every hint line the for statement draws (one that is not
\* consumed as the target of the hint before it) is appended unchanged at its
\* position.
C5_DrawnHintLineKept ==
    \A k \in Ran :
        HasMarker(Drawn(k)) =>
            /\ steps[k].at <= Len(modified_lines)
            /\ modified_lines[steps[k].at] = Drawn(k)

\* Two hint lines were drawn and kept, and a target was rewritten.
C5_Witness ==
    /\ pc = "returned"
    /\ Cardinality({k \in Ran : HasMarker(Drawn(k))}) >= 2
    /\ \E k \in Ran : steps[k].kind = "replaced"
    /\ result # content

\* "cfn-hint: replace:", the marker without its "# ".
ShortMarker == Tail(Tail(Marker))

\* C7 as stated: a line that contains "cfn-hint: replace:" is handled as a
\* hint line.
C7_ShortMarkerIsHint ==
    \A k \in Ran : Contains(Drawn(k), ShortMarker) => steps[k].kind # "plain"

\* C7, amended: a line the for statement draws is handled as a hint line
\* exactly when it contains "# cfn-hint: replace:", wherever in the line; when
\* the hint parses and a line follows, the replacement is applied to that line.
C7_MarkerAnywhereIsHint ==
    \A k \in Ran :
        LET i == steps[k].at
            h == parse_hint(lines[i])
        IN  /\ HasMarker(lines[i]) <=> (steps[k].kind # "plain")
            /\ (HasMarker(lines[i]) /\ h.ok /\ i < Len(lines)) =>
                   LET r == replace_line(lines[i + 1], h.pattern, h.replacement)
                   IN  /\ steps[k].kind \in {"replaced", "regex_error", "raised"}
                       /\ (r.status = "ok") <=> (steps[k].kind = "replaced")
                       /\ r.status = "ok" => modified_lines[i + 1] = r.value

\* A hint whose marker is not at the start of its line rewrote its target.
C7_Witness ==
    \E k \in Ran :
        /\ steps[k].kind = "replaced"
        /\ find(Drawn(k), Marker) > 1
        /\ modified_lines[steps[k].at + 1] # lines[steps[k].at + 1]

\* C8: a hint that parses and is the last line drawn is kept, nothing is
\* appended after it, and process_content returns a document that ends with
\* it.
C8_HintAtEndKept ==
    \A k \in Ran :
        LET i == steps[k].at
        IN  (i = Len(lines) /\ HasMarker(lines[i]) /\ parse_hint(lines[i]).ok) =>
                /\ steps[k].kind = "eof"
                /\ Len(modified_lines) = i
                /\ modified_lines[i] = lines[i]
                /\ lines_iter = i
                /\ pc # "raised"
                /\ pc = "returned" => EndsWith(result, lines[i])

\* A document whose last line is a hint that parses came back.
C8_Witness ==
    /\ pc = "returned"
    /\ Len(steps) > 1
    /\ steps[Len(steps)].kind = "eof"
    /\ steps[Len(steps)].at = Len(lines)

\* C9 as stated: the pattern is the trimmed text between the marker and the
\* first " with: " after it, the replacement the rest of the line's content;
\* and parse_hint fails when the text after the second colon lacks " with: ".
C9_PatternFollowsMarker ==
    \A k \in Ran :
        LET line == Drawn(k)
            h == parse_hint(line)
            after == Tail_from(line, find(line, Marker) + Len(Marker))
            w == find(after, WithDelim)
        IN  HasMarker(line) =>
                /\ ~Contains(split_colon_last(line), WithDelim) => ~h.ok
                /\ h.ok =>
                       /\ w # 0
                       /\ h.pattern = strip(SubSeq(after, 1, w - 1))
                       /\ h.replacement =
                              Tail_from(LineContent(after), w + Len(WithDelim))

\* In the second call every hint parsed and was applied, or was the last line.
WellFormed == \A k \in Ran : steps[k].kind \in {"plain", "replaced", "eof"}

\* No pattern applied in this call matches its target.
NoPatternMatches ==
    \A k \in Ran :
        steps[k].kind = "replaced" =>
            ~re_matches(parse_hint(Drawn(k)).pattern, lines[steps[k].at + 1])

WorstOutcome ==
    LET codes == {outcomes[i] : i \in 1..Len(outcomes)} \cup {EXIT_SUCCESS}
    IN  CHOOSE m \in codes : \A c \in codes : c <= m

\* C6: every file is taken whatever failed before it, the running status is
\* the greatest failure code so far, and main returns it after the last file.
C6_WorstStatusWins ==
    mpc \in {"files", "exit"} =>
        /\ Len(outcomes) = file_idx
        /\ overall_exit_code = WorstOutcome
        /\ \A i \in 1..Len(outcomes) :
               outcomes[i] \in {EXIT_SUCCESS, EXIT_FILE_READ_ERROR,
                                EXIT_FILE_WRITE_ERROR, EXIT_INTERNAL_ERROR}
        /\ mpc = "exit" =>
               /\ file_idx = Len(files)
               /\ returned = overall_exit_code

\* An internal failure, then a write failure, then a file without failure:
\* main returned the internal failure.
C6_Witness ==
    /\ mpc = "exit"
    /\ outcomes = <<EXIT_INTERNAL_ERROR, EXIT_FILE_WRITE_ERROR, EXIT_SUCCESS>>
    /\ returned = EXIT_INTERNAL_ERROR
====
